---- MODULE Spec2Model ----
(***************************************************************************)
(* Model of the Flask application in src/app.py: the process-wide session  *)
(* registry `chat_sessions`, the handlers of POST /api/init,               *)
(* POST /api/query and GET /api/health, and the reassembly of a remote     *)
(* reply's parts into the {text, code, output} result.                     *)
(*                                                                         *)
(* A handler runs from its first line to its return as one action (the     *)
(* handlers are synchronous and share no lock; requests are taken one at a *)
(* time).  The remote service is an input: each call of chat.send_message  *)
(* either raises or returns, chosen by \E.                                 *)
(***************************************************************************)
EXTENDS Integers, Sequences, FiniteSets, TLC

VARIABLES
    chat_sessions,  \* app.py:62   dict: session id -> chat object (its identity)
    nextChat,       \* identity of the next object model.start_chat() returns
    sent,           \* per chat object: the messages chat.send_message was called with
    request,        \* the request handled by the last step
    response,       \* the HTTP response the last step returned
    reply,          \* what the remote service answered to the last step's send_message
    called,         \* the chat object the last step called send_message on (0: none)
    inited,         \* history: session id -> chat created by its last init that returned 200
    parts,          \* response.parts of the reply being reassembled (SpecRelay)
    result,         \* the result dict of the reassembly (SpecRelay)
    relayed         \* whether the reassembly loop has run (SpecRelay)

vars == <<chat_sessions, nextChat, sent, request, response, reply, called, inited,
          parts, result, relayed>>

-----------------------------------------------------------------------------
(* Bounds *)

MaxChats == 3       \* chat objects model.start_chat() may create in one run
MaxSends == 3       \* send_message calls on one chat object
MaxParts == 2       \* parts of one remote reply

-----------------------------------------------------------------------------
(* JSON request bodies *)

JNull == [type |-> "null", val |-> ""]
JStr(s) == [type |-> "string", val |-> s]

\* dict.get(key, default)
Get(d, key, default) == IF key \in DOMAIN d THEN d[key] ELSE default

\* Python truthiness of a JSON scalar: None and '' are falsy
Truthy(j) == j.type = "string" /\ j.val # ""

SessionIdInputs == {"s1"}
QueryInputs == {JNull, JStr(""), JStr("q1")}

\* the bodies a client posts: not JSON at all, or a JSON object with each of
\* the keys session_id and query present or not
NoObject == [k \in {} |-> JNull]

JsonObjects ==
    UNION { { [k \in D |-> IF k = "session_id" THEN JStr(s) ELSE q] :
                s \in SessionIdInputs, q \in QueryInputs }
            : D \in SUBSET {"session_id", "query"} }

Bodies ==
    { [is_json |-> FALSE, obj |-> NoObject] } \cup
    { [is_json |-> TRUE, obj |-> o] : o \in JsonObjects }

\* request.json.get('session_id', 'default')
SessionIdOf(body) == Get(body.obj, "session_id", JStr("default")).val

\* request.json.get('query', '')
UserQueryOf(body) == Get(body.obj, "query", JStr(""))

-----------------------------------------------------------------------------
(* The remote reply: response.parts *)

\* an attribute of a part: has = hasattr(part, name); a message-typed
\* attribute is truthy when any of its fields is set
NoText == [has |-> FALSE, val |-> ""]
NoCode == [has |-> FALSE, language |-> "LANGUAGE_UNSPECIFIED", code |-> ""]
NoExec == [has |-> FALSE, outcome |-> "OUTCOME_UNSPECIFIED", output |-> ""]

TextVals == {NoText} \cup { [has |-> TRUE, val |-> v] : v \in {"", "A", "B"} }

CodeVals ==
    { NoCode,
      [has |-> TRUE, language |-> "LANGUAGE_UNSPECIFIED", code |-> ""],
      [has |-> TRUE, language |-> "PYTHON", code |-> ""],
      [has |-> TRUE, language |-> "PYTHON", code |-> "x=1"],
      [has |-> TRUE, language |-> "PYTHON", code |-> "x=2"] }

ExecVals ==
    { NoExec,
      [has |-> TRUE, outcome |-> "OUTCOME_UNSPECIFIED", output |-> ""],
      [has |-> TRUE, outcome |-> "OUTCOME_OK", output |-> ""],
      [has |-> TRUE, outcome |-> "OUTCOME_OK", output |-> "1"],
      [has |-> TRUE, outcome |-> "OUTCOME_OK", output |-> "2"] }

Parts == [text : TextVals, executable_code : CodeVals, code_execution_result : ExecVals]

PartSeqs == UNION { [1..n -> Parts] : n \in 0..MaxParts }

\* hasattr(part, 'text') and part.text
TextTruthy(t) == t.has /\ t.val # ""

\* hasattr(part, 'executable_code') and part.executable_code
CodeTruthy(c) == c.has /\ (c.language # "LANGUAGE_UNSPECIFIED" \/ c.code # "")

\* hasattr(part, 'code_execution_result') and part.code_execution_result
ExecTruthy(e) == e.has /\ (e.outcome # "OUTCOME_UNSPECIFIED" \/ e.output # "")

EmptyResult == [text |-> "", code |-> "", output |-> ""]

\* ReassemblePart with the output assigned whenever the execution result is
\* truthy, without the test of its output
ReassemblePart_OutputUnchecked(res, part) ==
    LET r1 == IF TextTruthy(part.text)
              THEN [res EXCEPT !.text = @ \o part.text.val]
              ELSE res
        r2 == IF CodeTruthy(part.executable_code)
              THEN [r1 EXCEPT !.code = part.executable_code.code]
              ELSE r1
    IN  IF ExecTruthy(part.code_execution_result)
        THEN [r2 EXCEPT !.output = part.code_execution_result.output]
        ELSE r2

\* ReassemblePart with the three tests as alternatives (if / elif / elif): a
\* part that carries code or an execution result contributes no text
ReassemblePart_Elif(res, part) ==
    IF CodeTruthy(part.executable_code)
    THEN [res EXCEPT !.code = part.executable_code.code]
    ELSE IF ExecTruthy(part.code_execution_result)
    THEN IF part.code_execution_result.output # ""
         THEN [res EXCEPT !.output = part.code_execution_result.output]
         ELSE res
    ELSE IF TextTruthy(part.text)
    THEN [res EXCEPT !.text = @ \o part.text.val]
    ELSE res

\* one iteration of `for part in response.parts`
ReassemblePart(res, part) ==
    LET r1 == IF TextTruthy(part.text)
              THEN [res EXCEPT !.text = @ \o part.text.val]
              ELSE res
        r2 == IF CodeTruthy(part.executable_code)
              THEN [r1 EXCEPT !.code = part.executable_code.code]
              ELSE r1
        r3 == IF ExecTruthy(part.code_execution_result)
              THEN IF part.code_execution_result.output # ""
                   THEN [r2 EXCEPT !.output = part.code_execution_result.output]
                   ELSE r2
              ELSE r2
    IN  r3

RECURSIVE ReassembleFrom(_, _, _)
ReassembleFrom(res, ps, i) ==
    IF i > Len(ps) THEN res
    ELSE ReassembleFrom(ReassemblePart(res, ps[i]), ps, i + 1)

\* result = {'text': '', 'code': '', 'output': ''}; for part in response.parts: ...
Reassemble(ps) == ReassembleFrom(EmptyResult, ps, 1)

-----------------------------------------------------------------------------
(* The remote service, as the handlers see it *)

ErrMsgs == {"quota exceeded", "network unreachable"}

\* outcome of chat.send_message(system_context) in init_session
InitReplies ==
    { [raises |-> FALSE, readable |-> TRUE, msg |-> "", parts |-> <<>>] } \cup
    { [raises |-> TRUE, readable |-> FALSE, msg |-> m, parts |-> <<>>] : m \in ErrMsgs }

\* the parts of the reassembly example: {text A}, {code x=1, text B},
\* {code x=2, output 2}
PartA ==
    [text |-> [has |-> TRUE, val |-> "A"], executable_code |-> NoCode,
     code_execution_result |-> NoExec]
PartB ==
    [text |-> [has |-> TRUE, val |-> "B"],
     executable_code |-> [has |-> TRUE, language |-> "PYTHON", code |-> "x=1"],
     code_execution_result |-> NoExec]
PartC ==
    [text |-> NoText,
     executable_code |-> [has |-> TRUE, language |-> "PYTHON", code |-> "x=2"],
     code_execution_result |-> [has |-> TRUE, outcome |-> "OUTCOME_OK", output |-> "2"]]

ExampleReplies == { <<>>, <<PartA>>, <<PartA, PartB, PartC>> }

\* outcome of chat.send_message(user_query) in query: the call raises, or it
\* returns a response whose parts can be read, or reading the parts raises
QueryReplies ==
    { [raises |-> TRUE, readable |-> FALSE, msg |-> m, parts |-> <<>>] : m \in ErrMsgs } \cup
    { [raises |-> FALSE, readable |-> FALSE, msg |-> "malformed response", parts |-> <<>>] } \cup
    { [raises |-> FALSE, readable |-> TRUE, msg |-> "", parts |-> ps] : ps \in ExampleReplies }

SystemContext == "system_context"

\* chat.send_message(message): one call on the chat object
SendMessage(sn, chat, message) == [sn EXCEPT ![chat] = Append(@, message)]

-----------------------------------------------------------------------------
(* HTTP responses: jsonify(...), status *)

NoResponse ==
    [route |-> "", status |-> 0, error |-> "", details |-> "", body_status |-> "",
     result |-> EmptyResult, active_sessions |-> 0]

Response(route, status) == [NoResponse EXCEPT !.route = route, !.status = status]

\* except Exception as e: jsonify({'error': str(e), 'details': traceback.format_exc()}), 500
InitFailed(msg) ==
    [Response("/api/init", 500) EXCEPT !.error = msg, !.details = "Traceback: " \o msg]

\* jsonify({'status': 'success', 'rows': ..., 'columns': ..., 'column_names': ...})
InitSuccess == [Response("/api/init", 200) EXCEPT !.body_status = "success"]

\* jsonify({'error': 'No query provided'}), 400
NoQueryProvided == [Response("/api/query", 400) EXCEPT !.error = "No query provided"]

\* jsonify({'error': 'Session not initialized. Please refresh the page.'}), 400
SessionNotInitialized ==
    [Response("/api/query", 400) EXCEPT
        !.error = "Session not initialized. Please refresh the page."]

\* QueryFailed with a fixed message in place of str(e)
QueryFailed_Generic(msg) ==
    [NoResponse EXCEPT !.route = "/api/query", !.status = 500,
                       !.error = "Internal server error"]

\* except Exception as e: jsonify({'error': str(e)}), 500
QueryFailed(msg) == [Response("/api/query", 500) EXCEPT !.error = msg]

\* jsonify(result)
QuerySuccess(res) == [Response("/api/query", 200) EXCEPT !.result = res]

\* str(e) when request.json is not a JSON object
BadBodyMsg == "request body is not JSON"

\* str(e) of the KeyError chat_sessions[session_id] raises on a missing key
KeyErrorMsg(session_id) == "'" \o session_id \o "'"

-----------------------------------------------------------------------------
(* The handlers.  Each returns the state it leaves and its response. *)

Outcome(cs, nc, sn, resp) ==
    [chat_sessions |-> cs, nextChat |-> nc, sent |-> sn, response |-> resp]

\* StoreSession as chat_sessions.setdefault(session_id, chat): an existing
\* entry is kept
StoreSession_SetDefault(cs, session_id, chat) ==
    [k \in DOMAIN cs \cup {session_id} |-> IF k \in DOMAIN cs THEN cs[k] ELSE chat]

\* StoreSession under the fixed key 'default' instead of session_id
StoreSession_DefaultKey(cs, session_id, chat) ==
    [k \in DOMAIN cs \cup {"default"} |-> IF k = "default" THEN chat ELSE cs[k]]

\* chat_sessions[session_id] = chat
StoreSession(cs, session_id, chat) ==
    [k \in DOMAIN cs \cup {session_id} |-> IF k = session_id THEN chat ELSE cs[k]]

\* init_session with the handle stored before the context message is sent
init_session_StoreFirst(cs, nc, sn, body, rep) ==
    IF ~body.is_json
    THEN [chat_sessions |-> cs, nextChat |-> nc, sent |-> sn,
          response |-> InitFailed(BadBodyMsg)]
    ELSE LET session_id == SessionIdOf(body)
             chat == nc
             cs1 == [k \in DOMAIN cs \cup {session_id} |->
                        IF k = session_id THEN chat ELSE cs[k]]
             sn1 == SendMessage(sn, chat, SystemContext)
         IN  [chat_sessions |-> cs1, nextChat |-> nc + 1, sent |-> sn1,
              response |-> IF rep.raises THEN InitFailed(rep.msg) ELSE InitSuccess]

\* POST /api/init
init_session(cs, nc, sn, body, rep) ==
    IF ~body.is_json
    THEN Outcome(cs, nc, sn, InitFailed(BadBodyMsg))
    ELSE LET session_id == SessionIdOf(body)
             chat == nc                                  \* model.start_chat()
             sn1 == SendMessage(sn, chat, SystemContext)  \* chat.send_message(system_context)
         IN  IF rep.raises
             THEN Outcome(cs, nc + 1, sn1, InitFailed(rep.msg))
             ELSE Outcome(StoreSession(cs, session_id, chat), nc + 1, sn1, InitSuccess)

\* NoQuery as `if user_query is None`
NoQuery_IsNone(user_query) == user_query.type = "null"

\* if not user_query
NoQuery(user_query) == ~Truthy(user_query)

\* NotInSessions with the membership test dropped
NotInSessions_Never(cs, session_id) == FALSE

\* session_id not in chat_sessions
NotInSessions(cs, session_id) == session_id \notin DOMAIN cs

\* POST /api/query
query(cs, nc, sn, body, rep) ==
    IF ~body.is_json
    THEN Outcome(cs, nc, sn, QueryFailed(BadBodyMsg))
    ELSE LET session_id == SessionIdOf(body)
             user_query == UserQueryOf(body)
         IN  IF NoQuery(user_query)
             THEN Outcome(cs, nc, sn, NoQueryProvided)
             ELSE IF NotInSessions(cs, session_id)
             THEN Outcome(cs, nc, sn, SessionNotInitialized)
             ELSE IF session_id \notin DOMAIN cs           \* chat_sessions[session_id]
             THEN Outcome(cs, nc, sn, QueryFailed(KeyErrorMsg(session_id)))
             ELSE LET chat == cs[session_id]
                      sn1 == SendMessage(sn, chat, user_query.val)
                  IN  IF rep.raises \/ ~rep.readable
                      THEN Outcome(cs, nc, sn1, QueryFailed(rep.msg))
                      ELSE Outcome(cs, nc, sn1, QuerySuccess(Reassemble(rep.parts)))

\* health reporting the number of chat objects created so far
health_CountsChats(cs, nc, sn) ==
    [chat_sessions |-> cs, nextChat |-> nc, sent |-> sn,
     response |-> [NoResponse EXCEPT !.route = "/api/health", !.status = 200,
                                     !.body_status = "healthy",
                                     !.active_sessions = nc - 1]]

\* GET /api/health
health(cs, nc, sn) ==
    Outcome(cs, nc, sn,
            [Response("/api/health", 200) EXCEPT
                !.body_status = "healthy", !.active_sessions = Cardinality(DOMAIN cs)])

-----------------------------------------------------------------------------
(* State machine *)

Chats == 1..MaxChats

NoRequest == [route |-> "", body |-> [is_json |-> FALSE, obj |-> NoObject]]

NoSessions == [k \in {} |-> 1]

\* the handler returned without calling send_message
NoReply == [raises |-> FALSE, readable |-> FALSE, msg |-> "", parts |-> <<>>]

\* the chat objects whose send_message was called between sn and sn1
CalledChats(sn, sn1) == { c \in DOMAIN sn : sn1[c] # sn[c] }

Init ==
    /\ chat_sessions = NoSessions
    /\ nextChat = 1
    /\ sent = [c \in Chats |-> <<>>]
    /\ request = NoRequest
    /\ response = NoResponse
    /\ reply = NoReply
    /\ called = 0
    /\ inited = NoSessions
    /\ parts = <<>>
    /\ result = EmptyResult
    /\ relayed = FALSE

WithinBounds(out) ==
    /\ out.nextChat <= MaxChats + 1
    /\ \A c \in Chats : Len(out.sent[c]) <= MaxSends

Apply(route, body, rep, out) ==
    /\ WithinBounds(out)
    /\ reply' = IF CalledChats(sent, out.sent) = {} THEN NoReply ELSE rep
    /\ called' = IF CalledChats(sent, out.sent) = {} THEN 0
                 ELSE CHOOSE c \in CalledChats(sent, out.sent) : TRUE
    /\ chat_sessions' = out.chat_sessions
    /\ nextChat' = out.nextChat
    /\ sent' = out.sent
    /\ request' = [route |-> route, body |-> body]
    /\ response' = out.response

InitSession ==
    \E body \in Bodies, reply_ \in InitReplies :
        LET out == init_session(chat_sessions, nextChat, sent, body, reply_)
        IN  /\ nextChat <= MaxChats
            /\ Apply("/api/init", body, reply_, out)
            /\ inited' = IF out.response.status = 200
                         THEN [k \in DOMAIN inited \cup {SessionIdOf(body)} |->
                                 IF k = SessionIdOf(body) THEN nextChat ELSE inited[k]]
                         ELSE inited
            /\ UNCHANGED <<parts, result, relayed>>

Query ==
    \E body \in Bodies, reply_ \in QueryReplies :
        /\ Apply("/api/query", body, reply_,
                 query(chat_sessions, nextChat, sent, body, reply_))
        /\ UNCHANGED <<inited, parts, result, relayed>>

Health ==
    /\ Apply("/api/health", [is_json |-> FALSE, obj |-> NoObject], NoReply,
             health(chat_sessions, nextChat, sent))
    /\ UNCHANGED <<inited, parts, result, relayed>>

Next == InitSession \/ Query \/ Health

Spec == Init /\ [][Next]_vars

-----------------------------------------------------------------------------
(* The reassembly loop on its own, over every reply of up to MaxParts parts *)

InitRelay ==
    /\ chat_sessions = NoSessions
    /\ nextChat = 1
    /\ sent = [c \in Chats |-> <<>>]
    /\ request = NoRequest
    /\ response = NoResponse
    /\ reply = NoReply
    /\ called = 0
    /\ inited = NoSessions
    /\ parts \in PartSeqs
    /\ result = EmptyResult
    /\ relayed = FALSE

Relay ==
    /\ ~relayed
    /\ result' = Reassemble(parts)
    /\ relayed' = TRUE
    /\ UNCHANGED <<chat_sessions, nextChat, sent, request, response, reply, called,
                   inited, parts>>

NextRelay == Relay

SpecRelay == InitRelay /\ [][NextRelay]_vars

-----------------------------------------------------------------------------
(* Properties of the session registry and the handlers (Spec) *)

\* the body is a JSON object whose query is a non-empty string
HasQueryText(body) ==
    /\ body.is_json
    /\ "query" \in DOMAIN body.obj
    /\ body.obj["query"].type = "string"
    /\ body.obj["query"].val # ""

\* the step is a request to this route
Handled(route) == request'.route = route

\* send_message was called exactly once in the step, on chat c with message m
OneSend(c, m) == sent' = [sent EXCEPT ![c] = Append(@, m)]

\* the remote call of the step raised, or reading its response raised
RemoteFailed(rep) == rep # NoReply /\ (rep.raises \/ ~rep.readable)

\* C1: an init that succeeds for a session id already in the registry creates
\* a new chat, sends it the system context as its first message and stores it
\* in place of the old one; and every query that is forwarded goes to the chat
\* created by the latest successful init of its session id.
C1_ReinitOverwrites ==
    [][ /\ ( /\ Handled("/api/init")
             /\ response'.status = 200
             /\ SessionIdOf(request'.body) \in DOMAIN chat_sessions )
           => LET s == SessionIdOf(request'.body)
              IN  /\ chat_sessions'[s] # chat_sessions[s]
                  /\ chat_sessions'[s] = nextChat
                  /\ sent[nextChat] = <<>>
                  /\ sent'[nextChat] = <<SystemContext>>
                  /\ DOMAIN chat_sessions' = DOMAIN chat_sessions
        /\ ( Handled("/api/query") /\ sent' # sent )
           => LET s == SessionIdOf(request'.body)
              IN  /\ s \in DOMAIN inited
                  /\ OneSend(inited[s], UserQueryOf(request'.body).val)
      ]_vars

\* s1 was initialised, queried, initialised again, and the next query went to
\* the second chat
C1_Witness ==
    /\ DOMAIN chat_sessions = {"s1"}
    /\ chat_sessions["s1"] = 2
    /\ sent[1] = <<SystemContext, "q1">>
    /\ sent[2] = <<SystemContext, "q1">>
    /\ request.route = "/api/query"
    /\ response.status = 200
    /\ called = 2

\* C2: a query for s that directly follows a successful init of s is not
\* answered 'session not initialized': it is forwarded, once, to the chat that
\* init call created.
C2_InitThenLookup ==
    [][ ( /\ request.route = "/api/init"
          /\ response.status = 200
          /\ Handled("/api/query")
          /\ HasQueryText(request'.body)
          /\ SessionIdOf(request'.body) = SessionIdOf(request.body) )
        => /\ response'.status \in {200, 500}
           /\ response'.error # "Session not initialized. Please refresh the page."
           /\ called' = nextChat - 1
           /\ OneSend(nextChat - 1, UserQueryOf(request'.body).val)
      ]_vars

\* the first request initialised s1, the second queried it
C2_Witness ==
    /\ nextChat = 2
    /\ sent[1] = <<SystemContext, "q1">>
    /\ request.route = "/api/query"
    /\ SessionIdOf(request.body) = "s1"
    /\ response.status = 200
    /\ called = 1

\* C3: a query with query text for a session id that is not in the registry is
\* answered 400 'session not initialized', calls send_message on no chat and
\* leaves the registry as it was.
C3_MissingSessionRejected ==
    [][ ( /\ Handled("/api/query")
          /\ HasQueryText(request'.body)
          /\ SessionIdOf(request'.body) \notin DOMAIN chat_sessions )
        => /\ response'.status = 400
           /\ response'.error = "Session not initialized. Please refresh the page."
           /\ sent' = sent
           /\ called' = 0
           /\ chat_sessions' = chat_sessions
           /\ nextChat' = nextChat
      ]_vars

\* a query for s1 was rejected while only 'default' was initialised
C3_Witness ==
    /\ request.route = "/api/query"
    /\ HasQueryText(request.body)
    /\ SessionIdOf(request.body) = "s1"
    /\ DOMAIN chat_sessions = {"default"}
    /\ response.status = 400
    /\ response.error = "Session not initialized. Please refresh the page."

C5_QueryFailureKeepsHandle ==
    [][ /\ ( Handled("/api/query") /\ RemoteFailed(reply') )
           => /\ response'.status = 500
              /\ response'.error = reply'.msg
              /\ reply'.msg # ""
              /\ chat_sessions' = chat_sessions
              /\ nextChat' = nextChat
              /\ OneSend(called', UserQueryOf(request'.body).val)
        /\ ( /\ request.route = "/api/query" /\ RemoteFailed(reply)
             /\ Handled("/api/query")
             /\ HasQueryText(request'.body)
             /\ SessionIdOf(request'.body) = SessionIdOf(request.body) )
           => called' = called
      ]_vars

\* a query for s1 failed and the query after it reached the same chat
C5_Witness ==
    /\ DOMAIN chat_sessions = {"s1"}
    /\ chat_sessions["s1"] = 1
    /\ sent[1] = <<SystemContext, "q1", "q1">>
    /\ request.route = "/api/query"
    /\ RemoteFailed(reply)
    /\ response.status = 500
    /\ response.error = "quota exceeded"

\* C6: when the remote service rejects the system context of an init, the
\* answer is 500 with an error message and details, and the registry, with any
\* earlier handle under the same session id, is as it was.
C6_InitFailureStoresNothing ==
    [][ ( Handled("/api/init") /\ RemoteFailed(reply') )
        => /\ response'.status = 500
           /\ response'.error = reply'.msg
           /\ response'.error # ""
           /\ response'.details # ""
           /\ chat_sessions' = chat_sessions
      ]_vars

\* an init of s1 failed while s1 held the chat of an earlier init
C6_Witness ==
    /\ request.route = "/api/init"
    /\ SessionIdOf(request.body) = "s1"
    /\ RemoteFailed(reply)
    /\ response.status = 500
    /\ DOMAIN chat_sessions = {"s1"}
    /\ chat_sessions["s1"] = 1
    /\ sent[2] = <<SystemContext>>

\* C10: health reports the number of registry entries, which is the number of
\* session ids with at least one successful init; no step decreases it.
C10_HealthCountsSessions ==
    [][ /\ Cardinality(DOMAIN chat_sessions') >= Cardinality(DOMAIN chat_sessions)
        /\ DOMAIN chat_sessions' = DOMAIN inited'
        /\ Handled("/api/health")
           => /\ response'.status = 200
              /\ response'.active_sessions = Cardinality(DOMAIN chat_sessions')
              /\ response'.active_sessions = Cardinality(DOMAIN inited')
              /\ chat_sessions' = chat_sessions
      ]_vars

\* health reported two sessions after three chats had been created
C10_Witness ==
    /\ request.route = "/api/health"
    /\ response.active_sessions = 2
    /\ nextChat = 4
    /\ \E c \in Chats : Len(sent[c]) > 1

-----------------------------------------------------------------------------
(* Properties of the reassembly (SpecRelay) *)

Max(S) == CHOOSE x \in S : \A y \in S : y <= x

\* the code string of the last part whose code string is non-empty, else ''
LastNonEmptyCode(ps) ==
    LET I == { i \in 1..Len(ps) :
                 ps[i].executable_code.has /\ ps[i].executable_code.code # "" }
    IN  IF I = {} THEN "" ELSE ps[Max(I)].executable_code.code

\* the output of the last part whose execution result has a non-empty output
LastNonEmptyOutput(ps) ==
    LET I == { i \in 1..Len(ps) :
                 /\ ps[i].code_execution_result.has
                 /\ ps[i].code_execution_result.output # "" }
    IN  IF I = {} THEN "" ELSE ps[Max(I)].code_execution_result.output

\* the text fragments of the parts that have one, in part order
RECURSIVE ConcatText(_)
ConcatText(ps) ==
    IF ps = <<>> THEN ""
    ELSE (IF Head(ps).text.has THEN Head(ps).text.val ELSE "") \o ConcatText(Tail(ps))

\* C7: the code field is the code string of the last part whose code string is
\* non-empty, and '' when there is none.
C7_CodeIsLastNonEmpty ==
    relayed => result.code = LastNonEmptyCode(parts)

\* C8: the output field is the output of the last part whose execution result
\* has a non-empty output, and '' when there is none.
C8_OutputIsLastNonEmpty ==
    relayed => result.output = LastNonEmptyOutput(parts)

\* an execution result with an empty output came after one with output 1
C8_Witness ==
    /\ relayed
    /\ Len(parts) = 2
    /\ parts[1].code_execution_result.output = "1"
    /\ parts[2].code_execution_result.has
    /\ parts[2].code_execution_result.outcome = "OUTCOME_OK"
    /\ parts[2].code_execution_result.output = ""
    /\ result.output = "1"

\* C9: the text field is the concatenation, in part order, of the text of
\* every part that has one, whether or not the part also has code or output.
C9_TextIsConcatenation ==
    relayed => result.text = ConcatText(parts)

\* two parts with text, the first also with code and output
C9_Witness ==
    /\ relayed
    /\ Len(parts) = 2
    /\ parts[1].text.val = "B"
    /\ parts[1].executable_code.code = "x=1"
    /\ parts[1].code_execution_result.output = "1"
    /\ parts[2].text.val = "A"
    /\ result.text = "BA"

====
